---- MODULE Spec2Model ----
(***************************************************************************)
(* The data-aggregation pipeline of the "AI Developments - Last 48 Hours"  *)
(* frontend: services/fetchDevelopments.js (src/unnamed/part_001), the     *)
(* date utilities (src/unnamed/part_000, lines 1-92) and the startup mock  *)
(* flag of index.js.                                                       *)
(*                                                                         *)
(* Strings are sequences of one-character strings, so that trim, case      *)
(* folding and substring search are computed and not assumed.  Instants    *)
(* are integers in milliseconds since the epoch; NaN is the time value of  *)
(* an invalid Date.  Display-only item fields (source, summary, tags) are  *)
(* left out: no property below reads them.                                 *)
(***************************************************************************)
EXTENDS Integers, Sequences, FiniteSets, TLC

\* ------------------------------------------------------------------------
\* Bounds of the model
\* ------------------------------------------------------------------------
MaxHits == 2        \* longest provider response (hits / articles)
MaxMock == 2        \* longest mock fixture
MaxTicks == 1       \* clock advances, of one hour each
StartHour == 200    \* the clock at startup, in hours since the epoch
MaxRefresh == 1     \* refresh() calls of the hook's consumer after the initial load

\* ------------------------------------------------------------------------
\* Program constants
\* ------------------------------------------------------------------------
HOURS == 48
HourMs == 3600000
NaN == -1

Now0 == StartHour * HourMs

\* ------------------------------------------------------------------------
\* Strings
\* ------------------------------------------------------------------------
UpperChars == <<"A", "B", "C", "E", "G", "H", "I", "K", "M", "N", "O", "P", "R", "S", "T", "U", "W", "X", "Y">>
LowerChars == <<"a", "b", "c", "e", "g", "h", "i", "k", "m", "n", "o", "p", "r", "s", "t", "u", "w", "x", "y">>

ToLowerChar(c) ==
  IF \E i \in 1..Len(UpperChars) : UpperChars[i] = c
    THEN LowerChars[CHOOSE i \in 1..Len(UpperChars) : UpperChars[i] = c]
    ELSE c

ToUpperChar(c) ==
  IF \E i \in 1..Len(LowerChars) : LowerChars[i] = c
    THEN UpperChars[CHOOSE i \in 1..Len(LowerChars) : LowerChars[i] = c]
    ELSE c

\* String.prototype.toLowerCase / toUpperCase
ToLowerCase(s) == [i \in 1..Len(s) |-> ToLowerChar(s[i])]
ToUpperCase(s) == [i \in 1..Len(s) |-> ToUpperChar(s[i])]

\* String.prototype.trim
RECURSIVE TrimStart(_)
TrimStart(s) == IF s # <<>> /\ Head(s) = " " THEN TrimStart(Tail(s)) ELSE s

RECURSIVE TrimEnd(_)
TrimEnd(s) == IF s # <<>> /\ s[Len(s)] = " " THEN TrimEnd(SubSeq(s, 1, Len(s) - 1)) ELSE s

Trim(s) == TrimEnd(TrimStart(s))

\* String.prototype.includes
Includes(s, q) ==
  \E i \in 0..(Len(s) - Len(q)) : SubSeq(s, i + 1, i + Len(q)) = q

\* JavaScript truthiness of a string, and a || b on strings
Truthy(s) == s # <<>>
OrElse(a, b) == IF Truthy(a) THEN a ELSE b

\* ------------------------------------------------------------------------
\* Time values.  A timestamp string is a record: kind "iso" carries the
\* instant it parses to, kind "text" is a string Date cannot parse, kind
\* "absent" is a missing/empty field.
\* ------------------------------------------------------------------------
Iso(ms) == [kind |-> "iso", ms |-> ms]
BadText == [kind |-> "text", ms |-> NaN]
Absent == [kind |-> "absent", ms |-> NaN]

\* new Date(string).getTime()
DateParse(s) == IF s.kind = "iso" THEN s.ms ELSE NaN

\* new Date(ms).toISOString(): a RangeError for an invalid date
ToISOString(ms) == IF ms = NaN THEN [ok |-> FALSE, v |-> BadText] ELSE [ok |-> TRUE, v |-> Iso(ms)]

nowMinusHours(clock, hours) == clock - hours * HourMs

\* A Date instance (an invalid one has the time value NaN) and a number
DateOf(ms) == [kind |-> "date", ms |-> ms]
Num(n) == [kind |-> "num", ms |-> n]

RECURSIVE DecimalLength(_)
\* String(n).length of a non-negative integer
DecimalLength(n) == IF n < 10 THEN 1 ELSE 1 + DecimalLength(n \div 10)

\* A number of at most 10 characters counts as seconds, a longer one as
\* milliseconds; String(NaN) has 3 characters and NaN * 1000 is NaN
NumberToMs(n) ==
  IF n = NaN THEN NaN
  ELSE IF DecimalLength(n) <= 10 THEN n * 1000 ELSE n

\* The time value both utilities derive from their argument: a Date
\* instance as it is, a number by its length, anything else through the
\* Date constructor
TimeValue(v) ==
  IF v.kind = "date" THEN v.ms
  ELSE IF v.kind = "num" THEN NumberToMs(v.ms)
  ELSE DateParse(v)

\* Mutant: the start of the window is excluded
isWithinLastHoursExclusive(clock, isoOrUnix, hours) ==
  LET windowStart == nowMinusHours(clock, hours)
      tsMs == TimeValue(isoOrUnix)
  IN  IF tsMs = NaN THEN FALSE ELSE tsMs > windowStart

isWithinLastHours(clock, isoOrUnix, hours) ==
  LET windowStart == nowMinusHours(clock, hours)
      tsMs == TimeValue(isoOrUnix)
  IN  IF tsMs = NaN THEN FALSE ELSE tsMs >= windowStart

Floor(a, b) == a \div b

\* Mutant: exactly 60 seconds still count as 'now'
formatRelativeTimeLateMinute(clock, isoOrDate) ==
  LET t == TimeValue(isoOrDate)
      diffMs == clock - t
      seconds == Floor(diffMs, 1000)
      minutes == Floor(seconds, 60)
      hours == Floor(minutes, 60)
      days == Floor(hours, 24)
  IN  IF t = NaN THEN [n |-> NaN, unit |-> "d ago"]
      ELSE IF diffMs < 0 THEN [n |-> 0, unit |-> "now"]
      ELSE IF seconds <= 60 THEN [n |-> 0, unit |-> "now"]
      ELSE IF minutes < 60 THEN [n |-> minutes, unit |-> "m ago"]
      ELSE IF hours < 24 THEN [n |-> hours, unit |-> "h ago"]
      ELSE [n |-> days, unit |-> "d ago"]

\* Mutant: the day count is taken from the hours left over
formatRelativeTimeRemainder(clock, isoOrDate) ==
  LET t == TimeValue(isoOrDate)
      diffMs == clock - t
      seconds == Floor(diffMs, 1000)
      minutes == Floor(seconds, 60)
      hours == Floor(minutes, 60)
  IN  IF t = NaN THEN [n |-> NaN, unit |-> "d ago"]
      ELSE IF diffMs < 0 THEN [n |-> 0, unit |-> "now"]
      ELSE IF seconds < 60 THEN [n |-> 0, unit |-> "now"]
      ELSE IF minutes < 60 THEN [n |-> minutes, unit |-> "m ago"]
      ELSE IF hours < 24 THEN [n |-> hours, unit |-> "h ago"]
      ELSE [n |-> hours % 24, unit |-> "d ago"]

formatRelativeTime(clock, isoOrDate) ==
  LET t == TimeValue(isoOrDate)
      diffMs == clock - t
      seconds == Floor(diffMs, 1000)
      minutes == Floor(seconds, 60)
      hours == Floor(minutes, 60)
      days == Floor(hours, 24)
  IN  IF t = NaN THEN [n |-> NaN, unit |-> "d ago"]
      ELSE IF diffMs < 0 THEN [n |-> 0, unit |-> "now"]
      ELSE IF seconds < 60 THEN [n |-> 0, unit |-> "now"]
      ELSE IF minutes < 60 THEN [n |-> minutes, unit |-> "m ago"]
      ELSE IF hours < 24 THEN [n |-> hours, unit |-> "h ago"]
      ELSE [n |-> days, unit |-> "d ago"]

\* ------------------------------------------------------------------------
\* Items.  origin is a ghost field: "live" for an item normalized from the
\* provider's response of this invocation, "mock" for a fixture item.
\* ------------------------------------------------------------------------
Str(n) == [form |-> "index", s |-> <<>>, n |-> n]
NativeId(s) == [form |-> "native", s |-> s, n |-> 0]
SynthId(ms, title) == [form |-> "synth", s |-> title, n |-> ms]

Item(id, title, url, publishedAt, origin) ==
  [id |-> id, title |-> title, url |-> url, publishedAt |-> publishedAt, origin |-> origin]

RECURSIVE SelectSeqIdx(_, _, _)
\* Array.prototype.filter, on the positions keep(i) holds for
SelectSeqIdx(s, keep(_), i) ==
  IF i > Len(s) THEN <<>>
  ELSE (IF keep(i) THEN <<s[i]>> ELSE <<>>) \o SelectSeqIdx(s, keep, i + 1)

Filter(s, test(_)) == LET keep(i) == test(s[i]) IN SelectSeqIdx(s, keep, 1)

DefaultTitle == <<"A", "I", " ", "d", "e", "v", "e", "l", "o", "p", "m", "e", "n", "t">>
DefaultUrl == <<"h", "t", "t", "p", "s", ":", "/", "/", "e", "x", "a", "m", "p", "l", "e", ".", "c", "o", "m">>

\* buildMockData: the static fixture with its defaults filled in
buildMockData(clock, staticMock) ==
  [i \in 1..Len(staticMock) |->
     LET m == staticMock[i] IN
     Item(IF Truthy(m.id) THEN NativeId(m.id) ELSE [form |-> "mock", s |-> <<>>, n |-> i - 1],
          OrElse(m.title, DefaultTitle),
          OrElse(m.url, DefaultUrl),
          IF m.publishedAt.kind = "absent" THEN Iso(clock) ELSE m.publishedAt,
          "mock")]

\* The publish time normalizeFromHN computes for one hit
HNPublishedMs(clock, h) ==
  IF h.created_at_i # 0 THEN h.created_at_i * 1000
  ELSE IF h.created_at.kind # "absent" THEN DateParse(h.created_at)
  ELSE clock

\* normalizeFromHN: [ok |-> FALSE] when toISOString throws
normalizeFromHN(clock, hits) ==
  LET ms(h) == HNPublishedMs(clock, h)
      mapped == [i \in 1..Len(hits) |->
                   LET h == hits[i]
                       url == OrElse(h.url, h.story_url)
                       title == OrElse(h.title, h.story_title)
                   IN  Item(IF Truthy(h.objectID) THEN NativeId(h.objectID) ELSE SynthId(ms(h), title),
                            title, url, ToISOString(ms(h)).v, "live")]
      usable(x) == Truthy(x.title) /\ Truthy(x.url)
  IN  IF \E i \in 1..Len(hits) : ~ToISOString(ms(hits[i])).ok
        THEN [ok |-> FALSE, items |-> <<>>]
        ELSE [ok |-> TRUE, items |-> Filter(mapped, usable)]

\* The publish time normalizeFromNewsAPI / normalizeFromGNews compute
ArticlePublishedMs(clock, a) ==
  IF a.publishedAt.kind # "absent" THEN DateParse(a.publishedAt) ELSE clock

\* normalizeFromNewsAPI: [ok |-> FALSE] when toISOString throws
normalizeFromNewsAPI(clock, articles) ==
  LET ms(a) == ArticlePublishedMs(clock, a)
      mapped == [i \in 1..Len(articles) |->
                   LET a == articles[i] IN
                   Item(IF Truthy(a.url) THEN [form |-> "url", s |-> a.url, n |-> 0] ELSE Str(i - 1),
                        a.title, a.url, ToISOString(ms(a)).v, "live")]
      usable(x) == Truthy(x.title) /\ Truthy(x.url)
  IN  IF \E i \in 1..Len(articles) : ~ToISOString(ms(articles[i])).ok
        THEN [ok |-> FALSE, items |-> <<>>]
        ELSE [ok |-> TRUE, items |-> Filter(mapped, usable)]

\* normalizeFromGNews is the same mapping as normalizeFromNewsAPI
normalizeFromGNews(clock, articles) == normalizeFromNewsAPI(clock, articles)

RECURSIVE DedupeFrom(_, _, _)
DedupeFrom(items, i, seen) ==
  IF i > Len(items) THEN <<>>
  ELSE LET key == Trim(items[i].url) IN
       IF key = <<>> \/ key \in seen
         THEN DedupeFrom(items, i + 1, seen)
         ELSE <<items[i]>> \o DedupeFrom(items, i + 1, seen \cup {key})

RECURSIVE DedupeRawFrom(_, _, _)
DedupeRawFrom(items, i, seen) ==
  IF i > Len(items) THEN <<>>
  ELSE LET key == items[i].url IN
       IF key = <<>> \/ key \in seen
         THEN DedupeRawFrom(items, i + 1, seen)
         ELSE <<items[i]>> \o DedupeRawFrom(items, i + 1, seen \cup {key})

\* Mutant: the key is the url as given, not trimmed
dedupeNoTrim(items) == DedupeRawFrom(items, 1, {})

\* Mutant: the last item of every url is kept, not the first
dedupeKeepLast(items) ==
  LET later(i) == \E j \in (i + 1)..Len(items) : Trim(items[j].url) = Trim(items[i].url)
      keep(i) == Trim(items[i].url) # <<>> /\ ~later(i)
  IN  SelectSeqIdx(items, keep, 1)

\* dedupeByUrl: the first item of every trimmed, non-empty url
dedupeByUrl(items) == DedupeFrom(items, 1, {})

\* Mutant: the window filter keeps everything
filterNothing(clock, items, hours) == items

filterWithinHours(clock, items, hours) ==
  LET within(it) == isWithinLastHours(clock, it.publishedAt, hours)
  IN  Filter(items, within)

\* Mutant: the title is compared as written, not lower-cased
applyTitleFilterCaseSensitive(items, query) ==
  IF ~Truthy(query) THEN items
  ELSE LET q == ToLowerCase(Trim(query))
           hit(it) == Includes(it.title, q)
       IN  IF ~Truthy(q) THEN items ELSE Filter(items, hit)

\* Mutant: the query is not trimmed
applyTitleFilterNoTrim(items, query) ==
  IF ~Truthy(query) THEN items
  ELSE LET q == ToLowerCase(query)
           hit(it) == Includes(ToLowerCase(it.title), q)
       IN  Filter(items, hit)

applyTitleFilter(items, query) ==
  IF ~Truthy(query) THEN items
  ELSE LET q == ToLowerCase(Trim(query))
           hit(it) == Includes(ToLowerCase(it.title), q)
       IN  IF ~Truthy(q) THEN items ELSE Filter(items, hit)

\* The comparator of runPipeline's sort: new Date(b) - new Date(a), and a
\* NaN difference counts as 0
CompareDesc(a, b) ==
  LET da == DateParse(a.publishedAt)
      db == DateParse(b.publishedAt)
  IN  IF da = NaN \/ db = NaN THEN 0 ELSE db - da

RECURSIVE InsertSorted(_, _)
\* x placed behind every element it does not strictly precede
InsertSorted(sorted, x) ==
  IF sorted = <<>> THEN <<x>>
  ELSE LET last == sorted[Len(sorted)] IN
       IF CompareDesc(x, last) < 0
         THEN InsertSorted(SubSeq(sorted, 1, Len(sorted) - 1), x) \o <<last>>
         ELSE sorted \o <<x>>

RECURSIVE SortFrom(_, _, _)
SortFrom(items, i, acc) ==
  IF i > Len(items) THEN acc ELSE SortFrom(items, i + 1, InsertSorted(acc, items[i]))

\* Mutant: the list is left in the order it arrived in
SortNone(items) == items

\* Array.prototype.sort with CompareDesc: stable
SortDesc(items) == SortFrom(items, 1, <<>>)

\* Mutant: the items are returned without the annotation
addRelativeTimeNothing(clock, items) == items

addRelativeTime(clock, items) ==
  [i \in 1..Len(items) |->
     [id |-> items[i].id, title |-> items[i].title, url |-> items[i].url,
      publishedAt |-> items[i].publishedAt, origin |-> items[i].origin,
      relativeTime |-> formatRelativeTime(clock, items[i].publishedAt)]]

\* runPipeline: dedupe, title filter, sort, annotate
runPipeline(clock, items, queryText) ==
  LET deduped == dedupeByUrl(items)
      filtered == applyTitleFilter(deduped, queryText)
      sorted == SortDesc(filtered)
  IN  addRelativeTime(clock, sorted)

\* Mutant: the window is bypassed whenever it would empty the fixture
prepareMockBypassAlways(clock, staticMock, forceMock, queryText) ==
  LET mock == buildMockData(clock, staticMock)
      within == filterWithinHours(clock, mock, HOURS)
  IN  runPipeline(clock, IF Len(within) = 0 THEN mock ELSE within, queryText)

\* Mutant: the window is never bypassed
prepareMockNoBypass(clock, staticMock, forceMock, queryText) ==
  runPipeline(clock, filterWithinHours(clock, buildMockData(clock, staticMock), HOURS), queryText)

\* Mutant: the mock path of the earlier service, which did not deduplicate
prepareMockNoDedupe(clock, staticMock, forceMock, queryText) ==
  LET mock == buildMockData(clock, staticMock)
      within == filterWithinHours(clock, mock, HOURS)
      base == IF forceMock /\ Len(within) = 0 THEN mock ELSE within
  IN  addRelativeTime(clock, SortDesc(applyTitleFilter(base, queryText)))

\* prepareMock: the fixture, windowed unless forced mock finds nothing in
\* the window
prepareMock(clock, staticMock, forceMock, queryText) ==
  LET mock == buildMockData(clock, staticMock)
      within == filterWithinHours(clock, mock, HOURS)
      hasWithin == Len(within) > 0
      base == IF forceMock /\ ~hasWithin THEN mock ELSE within
  IN  runPipeline(clock, base, queryText)

\* ------------------------------------------------------------------------
\* Inputs: the environment, the launch URL, the fixture, provider responses
\* ------------------------------------------------------------------------
sHN == <<"H", "N">>
sNEWSAPI == <<"N", "E", "W", "S", "A", "P", "I">>
sGNEWS == <<"G", "N", "E", "W", "S">>
sTrue == <<"t", "r", "u", "e">>
sFalse == <<"f", "a", "l", "s", "e">>
sMock == <<"m", "o", "c", "k">>

\* REACT_APP_DATA_PROVIDER: unset, lower case, upper case, unknown
ProviderValues == {<<>>, <<"n", "e", "w", "s", "a", "p", "i">>, sGNEWS, <<"R", "S", "S">>}
\* REACT_APP_USE_MOCK
UseMockValues == {<<>>, sTrue}
\* REACT_APP_NEWSAPI_KEY, REACT_APP_GNEWS_KEY
KeyValues == {<<>>, <<"k">>}

\* The build-time environment.  The keys are read by the NEWSAPI and GNEWS
\* branches only, so they vary only under a selector that reads one of them;
\* each branch reads its own key only, so at most one of the two is set (the
\* selected provider's, or the other one's while the selected one's is missing)
Envs ==
  {e \in [REACT_APP_DATA_PROVIDER : ProviderValues, REACT_APP_USE_MOCK : UseMockValues,
          REACT_APP_NEWSAPI_KEY : KeyValues, REACT_APP_GNEWS_KEY : KeyValues] :
     /\ ToUpperCase(e.REACT_APP_DATA_PROVIDER) \notin {sNEWSAPI, sGNEWS} =>
          e.REACT_APP_NEWSAPI_KEY = <<>> /\ e.REACT_APP_GNEWS_KEY = <<>>
     /\ e.REACT_APP_NEWSAPI_KEY = <<>> \/ e.REACT_APP_GNEWS_KEY = <<>>}

\* window.location: the value of the mock query parameter, and the hash
MockParams == {<<>>, <<"1">>, sTrue, <<"o", "n">>, <<"y", "e", "s">>}
Hashes == {<<>>, <<"#", "m", "o", "c", "k">>}
Locations == [mock : MockParams, hash : Hashes]

tFresh == Now0 - HourMs
tEdge == Now0 - HOURS * HourMs
tStale == Now0 - 72 * HourMs

u1 == <<"u", "1">>
u2 == <<"u", "2">>

Hit(objectID, title, story_title, url, story_url, created_at_i, at) ==
  [objectID |-> objectID, title |-> title, story_title |-> story_title, url |-> url,
   story_url |-> story_url, created_at_i |-> created_at_i, created_at |-> at, publishedAt |-> at]

\* The records a provider response is made of: a fresh story dated by
\* created_at_i; one on the window's edge with the same url and another
\* title; a fresh one that only HN can use (story_title, story_url) and whose
\* url differs from the first by whitespace only; a fresh one with a url of
\* its own; one whose timestamp does not parse
RawPool ==
  { Hit(<<"7">>, <<"A", "i">>, <<>>, u1, <<>>, tFresh \div 1000, Absent),
    Hit(<<>>, <<"G", "o">>, <<>>, u1, <<>>, 0, Iso(tEdge)),
    Hit(<<>>, <<>>, <<"A", "I", " ", "x">>, <<>>, <<" ", "u", "1">>, 0, Iso(tFresh + 1000)),
    Hit(<<>>, <<"a", "i", " ", "b">>, <<>>, u2, <<>>, 0, Iso(tFresh - HourMs)),
    Hit(<<"8">>, <<"A", "i">>, <<>>, u2, <<>>, 0, BadText) }

RECURSIVE SeqsUpTo(_, _)
\* The sequences over S of length at most n
SeqsUpTo(S, n) ==
  IF n = 0 THEN {<<>>}
  ELSE LET shorter == SeqsUpTo(S, n - 1)
       IN  shorter \cup {Append(s, x) : s \in {t \in shorter : Len(t) = n - 1}, x \in S}

\* Sequences that list an element once
Injective(S) == {f \in S : \A i, j \in 1..Len(f) : i # j => f[i] # f[j]}

\* A response lists a record once
Responses == Injective(SeqsUpTo(RawPool, MaxHits))

Fixture(id, title, url, publishedAt) ==
  [id |-> id, title |-> title, url |-> url, publishedAt |-> publishedAt]

\* The entries a mock fixture (data/mockDevelopments.json) is made of: one
\* without id, title, url and timestamp; two that share a url, on the
\* window's edge and outside the window; one outside the window with a url
\* of its own
MockPool ==
  { Fixture(<<>>, <<>>, <<>>, Absent),
    Fixture(<<"b">>, <<"G", "o">>, <<"m", "1">>, Iso(tEdge)),
    Fixture(<<"c">>, <<"a", "i">>, <<"m", "1">>, Iso(tStale)),
    Fixture(<<"d">>, <<"A", "I", " ", "q">>, <<"m", "2", " ">>, Iso(tStale + HourMs)) }

\* A fixture lists an entry once
Fixtures == Injective(SeqsUpTo(MockPool, MaxMock))

\* queryText
Queries == {<<>>, <<" ">>, <<"a", "i", " ">>}

\* ------------------------------------------------------------------------
\* State
\* ------------------------------------------------------------------------
VARIABLES
  env,            \* process.env, fixed at build time
  staticMock,     \* data/mockDevelopments.json
  location,       \* window.location: mock query parameter and hash
  useMockGlobal,  \* window.__USE_MOCK
  booted,         \* index.js has run bootstrapMockFlag
  now,            \* Date.now()
  ticks,          \* clock advances so far
  pc,             \* fetchDevelopments: "idle", "fetch", "json", "done"
  queryText,      \* argument of the invocation
  provider,       \* local: the provider the request went to
  forceMock,      \* local: urlMockEnabled() at the start of the invocation
  mockOn,         \* local: envMock || forceMock
  requests,       \* ghost: the HTTP requests issued by this invocation
  response,       \* ghost: what the provider answered in this invocation
  result,         \* the settled promise of this invocation
  input,          \* date utilities called on their own: the arguments
  output,         \* date utilities called on their own: the values returned
  phase,          \* the component using the hook: "initial", "mounted", "unmounted"
  hook,           \* the useState values of useRecentDevelopments
  mountedRef,     \* mountedRef.current
  timer,          \* the pending debounce timeout
  calls,          \* the fetchService calls of the hook, in the order started
  started         \* ghost: how many calls the mount effect and refresh() started

fetchVars == <<env, staticMock, location, useMockGlobal, booted, now, ticks, pc, queryText,
               provider, forceMock, mockOn, requests, response, result>>
utilVars == <<input, output>>
hookVars == <<phase, hook, mountedRef, timer, calls, started>>
vars == <<fetchVars, utilVars, hookVars>>

\* No call of a date utility on its own
NoInput == [a |-> Absent, b |-> Absent, hours |-> 0]
NoOutput == [fn |-> "none", a |-> FALSE, b |-> FALSE]

\* error: null, or a message
NoError == [isNull |-> TRUE, message |-> <<>>]
ErrorOf(message) == [isNull |-> FALSE, message |-> message]

\* The hook before its first render commits: the initial useState values
\* (lastUpdated 0 stands for null), the ref, no timeout, no call
HookInit ==
  /\ phase = "initial"
  /\ hook = [items |-> <<>>, query |-> <<>>, debouncedQuery |-> <<>>, loading |-> FALSE,
             error |-> NoError, lastUpdated |-> 0, mockActive |-> FALSE]
  /\ mountedRef = TRUE
  /\ timer = [armed |-> FALSE, value |-> <<>>]
  /\ calls = <<>>
  /\ started = [effect |-> 0, refresh |-> 0]

NoResponse == [kind |-> "none", list |-> <<>>]
Pending == [settled |-> "pending", items |-> <<>>, usedMock |-> FALSE]

\* return { items, usedMock }
Resolved(items, usedMock) == [settled |-> "resolved", items |-> items, usedMock |-> usedMock]
\* an error escaping the async function
Rejected == [settled |-> "rejected", items |-> <<>>, usedMock |-> FALSE]

\* ------------------------------------------------------------------------
\* Mode resolution
\* ------------------------------------------------------------------------
hasQueryMock(loc) ==
  Truthy(loc.mock) /\ ToLowerCase(loc.mock) \in {<<"1">>, sTrue, <<"o", "n">>, <<"y", "e", "s">>}

hasHashMock(loc) == Includes(ToLowerCase(loc.hash), sMock)

\* Mutant: the global flag set at startup is not consulted
urlMockIgnoresGlobal(loc, globalFlag) == hasQueryMock(loc) \/ hasHashMock(loc)

urlMockEnabled(loc, globalFlag) == hasQueryMock(loc) \/ hasHashMock(loc) \/ globalFlag

envMockOf(e) == ToLowerCase(OrElse(e.REACT_APP_USE_MOCK, sFalse)) = sTrue

providerOf(e) == ToUpperCase(OrElse(e.REACT_APP_DATA_PROVIDER, sHN))

\* Mutant: an unknown selector goes to NewsAPI
AdapterUnknownNews(p) == IF p \in {sHN, sNEWSAPI, sGNEWS} THEN p ELSE sNEWSAPI

\* fetchFromProvider's dispatch: an unknown selector goes to HN
Adapter(p) == IF p \in {sHN, sNEWSAPI, sGNEWS} THEN p ELSE sHN

\* Mutant: the credential is not checked
MissingKeyNever(e, p) == FALSE

\* The credential fetchFromProvider requires before it builds a request
MissingKey(e, p) ==
  \/ Adapter(p) = sNEWSAPI /\ ~Truthy(e.REACT_APP_NEWSAPI_KEY)
  \/ Adapter(p) = sGNEWS /\ ~Truthy(e.REACT_APP_GNEWS_KEY)

\* The request one adapter issues: HN carries no "from" parameter
Request(p, clock) ==
  [endpoint |-> Adapter(p),
   from |-> IF Adapter(p) = sHN THEN Absent ELSE Iso(nowMinusHours(clock, HOURS))]

\* ------------------------------------------------------------------------
\* fetchDevelopments
\* ------------------------------------------------------------------------
\* Mutant: the catch block rethrows
OnErrorRethrows(clock, fixture, forced, q) == Rejected

\* Mutant: the catch block resolves with an empty list
OnErrorEmpty(clock, fixture, forced, q) == Resolved(<<>>, TRUE)

\* The catch block: the error is logged, the mock path is the result
OnError(clock, fixture, forced, q) ==
  Resolved(prepareMock(clock, fixture, forced, q), TRUE)

\* fetchFromProvider after res.json(): normalization, and HN's own window
fetchFromProviderBody(p, clock, list) ==
  IF Adapter(p) = sHN
    THEN LET normalized == normalizeFromHN(clock, list)
             recent(n) == DateParse(n.publishedAt) >= nowMinusHours(clock, HOURS)
         IN  [ok |-> normalized.ok, items |-> Filter(normalized.items, recent)]
  ELSE IF Adapter(p) = sNEWSAPI THEN normalizeFromNewsAPI(clock, list)
  ELSE normalizeFromGNews(clock, list)

\* Mutant: the fallbacks leave usedMock false
AfterFetchKeepsFlag(clock, items, fixture, forced, q) ==
  LET processed == filterWithinHours(clock, items, HOURS) IN
  IF Len(processed) = 0 THEN Resolved(prepareMock(clock, fixture, forced, q), FALSE)
  ELSE Resolved(runPipeline(clock, processed, q), FALSE)

\* Mutant: no fallback when the window empties the live set
AfterFetchNoWindowFallback(clock, items, fixture, forced, q) ==
  IF Len(items) = 0 THEN Resolved(prepareMock(clock, fixture, forced, q), TRUE)
  ELSE Resolved(runPipeline(clock, filterWithinHours(clock, items, HOURS), q), FALSE)

\* Mutant: a live set the query empties falls back to mock too
AfterFetchEmptyResultFallback(clock, items, fixture, forced, q) ==
  LET processed == filterWithinHours(clock, items, HOURS) IN
  IF Len(processed) = 0 \/ runPipeline(clock, processed, q) = <<>>
    THEN Resolved(prepareMock(clock, fixture, forced, q), TRUE)
    ELSE Resolved(runPipeline(clock, processed, q), FALSE)

\* fetchDevelopments once fetchFromProvider has returned items
AfterFetch(clock, items, fixture, forced, q) ==
  IF Len(items) = 0 THEN Resolved(prepareMock(clock, fixture, forced, q), TRUE)
  ELSE LET processed == filterWithinHours(clock, items, HOURS) IN
       IF Len(processed) = 0 THEN Resolved(prepareMock(clock, fixture, forced, q), TRUE)
       ELSE Resolved(runPipeline(clock, processed, q), FALSE)

\* The live path from the parsed body to the settled promise
LiveResult(p, clock, list, fixture, forced, q) ==
  LET fetched == fetchFromProviderBody(p, clock, list) IN
  IF fetched.ok THEN AfterFetch(clock, fetched.items, fixture, forced, q)
  ELSE OnError(clock, fixture, forced, q)

Init ==
  /\ env \in Envs
  /\ staticMock \in Fixtures
  /\ location \in Locations
  /\ useMockGlobal = FALSE
  /\ booted = FALSE
  /\ now = Now0
  /\ ticks = 0
  /\ pc = "idle"
  /\ queryText = <<>>
  /\ provider = sHN
  /\ forceMock = FALSE
  /\ mockOn = FALSE
  /\ requests = <<>>
  /\ response = NoResponse
  /\ result = Pending
  /\ input = NoInput
  /\ output = NoOutput
  /\ HookInit

\* index.js: bootstrapMockFlag
bootstrapMockFlag ==
  /\ ~booted
  /\ booted' = TRUE
  /\ useMockGlobal' = IF hasQueryMock(location) \/ hasHashMock(location) THEN TRUE ELSE useMockGlobal
  /\ UNCHANGED <<env, staticMock, location, now, ticks, pc, queryText, provider, forceMock,
                 mockOn, requests, response, result>>
  /\ UNCHANGED <<utilVars, hookVars>>

\* Mutant: the flag follows the URL when the URL changes
NavigateRewritesFlag(loc) ==
  /\ booted
  /\ pc = "idle"
  /\ loc # location
  /\ location' = loc
  /\ useMockGlobal' = (hasQueryMock(loc) \/ hasHashMock(loc))
  /\ UNCHANGED <<env, staticMock, booted, now, ticks, pc, queryText, provider,
                 forceMock, mockOn, requests, response, result>>
  /\ UNCHANGED <<utilVars, hookVars>>

\* The user edits the URL without reloading the page
Navigate(loc) ==
  /\ booted
  /\ pc = "idle"
  /\ loc # location
  /\ location' = loc
  /\ UNCHANGED <<env, staticMock, useMockGlobal, booted, now, ticks, pc, queryText, provider,
                 forceMock, mockOn, requests, response, result>>
  /\ UNCHANGED <<utilVars, hookVars>>

\* fetchDevelopments(q) up to its first await
Call(q) ==
  /\ booted
  /\ pc = "idle"
  /\ LET p == providerOf(env)
         forced == urlMockEnabled(location, useMockGlobal)
         on == envMockOf(env) \/ forced
     IN  /\ queryText' = q
         /\ provider' = p
         /\ forceMock' = forced
         /\ mockOn' = on
         /\ IF on
              THEN /\ result' = Resolved(prepareMock(now, staticMock, forced, q), TRUE)
                   /\ pc' = "done"
                   /\ requests' = <<>>
                   /\ response' = NoResponse
            ELSE IF MissingKey(env, p)
              THEN /\ result' = OnError(now, staticMock, forced, q)
                   /\ pc' = "done"
                   /\ requests' = <<>>
                   /\ response' = [kind |-> "nokey", list |-> <<>>]
            ELSE /\ result' = Pending
                 /\ pc' = "fetch"
                 /\ requests' = <<Request(p, now)>>
                 /\ response' = NoResponse
  /\ UNCHANGED <<env, staticMock, location, useMockGlobal, booted, now, ticks>>
  /\ UNCHANGED <<utilVars, hookVars>>

\* Mutant: a failed request is issued once more before the fallback
FetchRetries(outcome) ==
  /\ pc = "fetch"
  /\ IF outcome = "ok"
       THEN /\ pc' = "json"
            /\ UNCHANGED <<response, result, requests>>
       ELSE IF Len(requests) < 2
         THEN /\ requests' = Append(requests, Request(provider, now))
              /\ UNCHANGED <<pc, response, result>>
         ELSE /\ pc' = "done"
              /\ response' = [kind |-> outcome, list |-> <<>>]
              /\ result' = OnError(now, staticMock, forceMock, queryText)
              /\ UNCHANGED requests
  /\ UNCHANGED <<env, staticMock, location, useMockGlobal, booted, now, ticks, queryText,
                 provider, forceMock, mockOn>>
  /\ UNCHANGED <<utilVars, hookVars>>

\* await fetch(url): a rejection, a non-2xx status, or a 2xx response
FetchSettles(outcome) ==
  /\ pc = "fetch"
  /\ IF outcome = "ok"
       THEN /\ pc' = "json"
            /\ UNCHANGED <<response, result>>
       ELSE /\ pc' = "done"
            /\ response' = [kind |-> outcome, list |-> <<>>]
            /\ result' = OnError(now, staticMock, forceMock, queryText)
  /\ UNCHANGED <<env, staticMock, location, useMockGlobal, booted, now, ticks, queryText,
                 provider, forceMock, mockOn, requests>>
  /\ UNCHANGED <<utilVars, hookVars>>

\* await res.json() throws on a malformed body
JsonFails ==
  /\ pc = "json"
  /\ pc' = "done"
  /\ response' = [kind |-> "parse", list |-> <<>>]
  /\ result' = OnError(now, staticMock, forceMock, queryText)
  /\ UNCHANGED <<env, staticMock, location, useMockGlobal, booted, now, ticks, queryText,
                 provider, forceMock, mockOn, requests>>
  /\ UNCHANGED <<utilVars, hookVars>>

\* await res.json() yields the body; the rest of the invocation is synchronous
JsonSettles(list) ==
  /\ pc = "json"
  /\ pc' = "done"
  /\ response' = [kind |-> "json", list |-> list]
  /\ result' = LiveResult(provider, now, list, staticMock, forceMock, queryText)
  /\ UNCHANGED <<env, staticMock, location, useMockGlobal, booted, now, ticks, queryText,
                 provider, forceMock, mockOn, requests>>
  /\ UNCHANGED <<utilVars, hookVars>>

\* Time passes between invocations and while a request is in flight
Tick ==
  /\ pc \in {"idle", "fetch", "json"}
  /\ ticks < MaxTicks
  /\ ticks' = ticks + 1
  /\ now' = now + HourMs
  /\ UNCHANGED <<env, staticMock, location, useMockGlobal, booted, pc, queryText, provider,
                 forceMock, mockOn, requests, response, result>>
  /\ UNCHANGED <<utilVars, hookVars>>

\* The caller has consumed the result; the next invocation starts afresh
Return ==
  /\ pc = "done"
  /\ pc' = "idle"
  /\ result' = Pending
  /\ response' = NoResponse
  /\ requests' = <<>>
  /\ queryText' = <<>>
  /\ provider' = sHN
  /\ forceMock' = FALSE
  /\ mockOn' = FALSE
  /\ UNCHANGED <<env, staticMock, location, useMockGlobal, booted, now, ticks>>
  /\ UNCHANGED <<utilVars, hookVars>>

Next ==
  \/ bootstrapMockFlag
  \/ \E loc \in Locations : Navigate(loc)
  \/ \E q \in Queries : Call(q)
  \/ \E outcome \in {"rejected", "status", "ok"} : FetchSettles(outcome)
  \/ JsonFails
  \/ \E list \in Responses : JsonSettles(list)
  \/ Tick
  \/ Return

Spec == Init /\ [][Next]_vars

\* ------------------------------------------------------------------------
\* The date utilities called on their own (utils/date.js): the arguments
\* are drawn at the start, one call evaluates the utility on both
\* ------------------------------------------------------------------------
\* Ages in milliseconds, on both sides of every threshold of
\* formatRelativeTime and of the 48 hour window; a negative age is an
\* instant in the future
Ages ==
  {-1000, 0, 59 * 1000, 60 * 1000 - 1, 60 * 1000, 90 * 1000, HourMs - 1, HourMs,
   61 * 60 * 1000, 24 * HourMs - 1, 24 * HourMs, 25 * HourMs, HOURS * HourMs,
   HOURS * HourMs + 1}

\* Date | number | string: ISO strings of every age, Date instances (one
\* invalid), unix seconds, NaN, a string Date cannot parse, undefined
TimeArgs ==
  {Iso(Now0 - a) : a \in Ages}
    \cup {DateOf(Now0 - 90 * 1000), DateOf(Now0 - HOURS * HourMs), DateOf(NaN)}
    \cup {Num((Now0 - 90 * 1000) \div 1000), Num((Now0 - HOURS * HourMs) \div 1000), Num(NaN)}
    \cup {BadText, Absent}

\* The window in hours
HoursArgs == {0, 1, HOURS}

TimeInit ==
  /\ env = [REACT_APP_DATA_PROVIDER |-> <<>>, REACT_APP_USE_MOCK |-> <<>>,
            REACT_APP_NEWSAPI_KEY |-> <<>>, REACT_APP_GNEWS_KEY |-> <<>>]
  /\ staticMock = <<>>
  /\ location = [mock |-> <<>>, hash |-> <<>>]
  /\ useMockGlobal = FALSE
  /\ booted = FALSE
  /\ now = Now0
  /\ ticks = 0
  /\ pc = "idle"
  /\ queryText = <<>>
  /\ provider = sHN
  /\ forceMock = FALSE
  /\ mockOn = FALSE
  /\ requests = <<>>
  /\ response = NoResponse
  /\ result = Pending
  /\ input \in [a : TimeArgs, b : TimeArgs, hours : HoursArgs]
  /\ output = NoOutput
  /\ HookInit

\* formatRelativeTime(a) and formatRelativeTime(b) at one clock value
CallFormatRelativeTime ==
  /\ output.fn = "none"
  /\ output' = [fn |-> "formatRelativeTime", a |-> formatRelativeTime(now, input.a),
                b |-> formatRelativeTime(now, input.b)]
  /\ UNCHANGED <<fetchVars, input, hookVars>>

\* isWithinLastHours(a, hours) and isWithinLastHours(b, hours)
CallIsWithinLastHours ==
  /\ output.fn = "none"
  /\ output' = [fn |-> "isWithinLastHours", a |-> isWithinLastHours(now, input.a, input.hours),
                b |-> isWithinLastHours(now, input.b, input.hours)]
  /\ UNCHANGED <<fetchVars, input, hookVars>>

TimeNext ==
  \/ CallFormatRelativeTime
  \/ CallIsWithinLastHours

SpecTime == TimeInit /\ [][TimeNext]_vars

\* ------------------------------------------------------------------------
\* The identifiers of a result: one invocation on a response, or on a
\* fixture, chosen at the start
\* ------------------------------------------------------------------------
\* Provider records for the three ways an id comes about: a native
\* objectID; no objectID, so the id is made of publish time and title (two
\* such records carry the same time and title under different urls, a third
\* another time)
IdPool ==
  { Hit(<<"7">>, <<"G", "o">>, <<>>, u1, <<>>, 0, Iso(tFresh)),
    Hit(<<>>, <<"G", "o">>, <<>>, u1, <<>>, 0, Iso(tFresh)),
    Hit(<<>>, <<"G", "o">>, <<>>, u2, <<>>, 0, Iso(tFresh)),
    Hit(<<>>, <<"G", "o">>, <<>>, u2, <<>>, 0, Iso(tFresh - HourMs)) }

IdResponses == Injective(SeqsUpTo(IdPool, MaxHits))

IdInputs ==
  [mode : {"live"}, provider : {sHN, sNEWSAPI, sGNEWS}, list : IdResponses, fixture : {<<>>}]
    \cup [mode : {"mock"}, provider : {sHN}, list : {<<>>}, fixture : Fixtures]

IdsInit ==
  /\ env = [REACT_APP_DATA_PROVIDER |-> <<>>, REACT_APP_USE_MOCK |-> <<>>,
            REACT_APP_NEWSAPI_KEY |-> <<>>, REACT_APP_GNEWS_KEY |-> <<>>]
  /\ staticMock = <<>>
  /\ location = [mock |-> <<>>, hash |-> <<>>]
  /\ useMockGlobal = FALSE
  /\ booted = FALSE
  /\ now = Now0
  /\ ticks = 0
  /\ pc = "idle"
  /\ queryText = <<>>
  /\ provider = sHN
  /\ forceMock = FALSE
  /\ mockOn = FALSE
  /\ requests = <<>>
  /\ response = NoResponse
  /\ result = Pending
  /\ input \in IdInputs
  /\ output = NoOutput
  /\ HookInit

\* fetchDevelopments('') on the live path, the provider answering input.list
CallLive ==
  /\ output.fn = "none"
  /\ input.mode = "live"
  /\ output' = [fn |-> "fetchDevelopments",
                a |-> LiveResult(input.provider, now, input.list, <<>>, FALSE, <<>>),
                b |-> FALSE]
  /\ UNCHANGED <<fetchVars, input, hookVars>>

\* fetchDevelopments('') in forced mock mode over the fixture input.fixture
CallMock ==
  /\ output.fn = "none"
  /\ input.mode = "mock"
  /\ output' = [fn |-> "fetchDevelopments",
                a |-> Resolved(prepareMock(now, input.fixture, TRUE, <<>>), TRUE),
                b |-> FALSE]
  /\ UNCHANGED <<fetchVars, input, hookVars>>

IdsNext ==
  \/ CallLive
  \/ CallMock

SpecIds == IdsInit /\ [][IdsNext]_vars

\* ------------------------------------------------------------------------
\* useRecentDevelopments (hooks/useRecentDevelopments.js).  The service is
\* the hook's environment here: a call it started settles, at any later
\* moment, resolved with an envelope or rejected with an error.
\* ------------------------------------------------------------------------
\* The envelopes a call resolves with: two live items, or one mock item
Card(id, title) == [id |-> id, title |-> title]
Envelopes ==
  { [items |-> <<Card("a", <<"A", "I", " ", "x">>), Card("b", <<"G", "o">>)>>, usedMock |-> FALSE],
    [items |-> <<Card("m", <<"G", "o">>)>>, usedMock |-> TRUE] }
NoEnvelope == [items |-> <<>>, usedMock |-> FALSE]

\* err.message of a rejection: absent, or a text
Messages == {<<>>, <<"E">>}
DefaultMessage == <<"F", "a", "i", "l", "e", "d">>

\* What the user types into the search box
HookQueries == {<<>>, <<" ", "A", "i">>, <<"g", "o", " ">>}

\* A call: pending, then resolved or rejected; order is the position of its
\* settlement among the settlements, at is the phase it settled in (ghosts)
PendingCall == [status |-> "pending", envelope |-> NoEnvelope, order |-> 0, at |-> "none"]
Settled == {k \in 1..Len(calls) : calls[k].status # "pending"}
InFlight == {k \in 1..Len(calls) : calls[k].status = "pending"}

\* refresh() up to its await: setLoading(true); setError(null)
onRefreshStart(h) == [h EXCEPT !.loading = TRUE, !.error = NoError]

\* Mutant: the result is applied whatever mountedRef holds
onResolvedUnguarded(h, ref, envelope, t) ==
  [h EXCEPT !.items = envelope.items, !.mockActive = envelope.usedMock, !.lastUpdated = t,
            !.loading = FALSE]

\* refresh() after its await resolved at time t: nothing when mountedRef is
\* false, else the three setters, and setLoading(false) in the finally
onResolved(h, ref, envelope, t) ==
  IF ~ref THEN h
  ELSE [h EXCEPT !.items = envelope.items, !.mockActive = envelope.usedMock,
                 !.lastUpdated = t, !.loading = FALSE]

\* refresh() after its await rejected: nothing when mountedRef is false,
\* else setError(err?.message || default), and setLoading(false)
onRejected(h, ref, message) ==
  IF ~ref THEN h
  ELSE [h EXCEPT !.error = ErrorOf(OrElse(message, DefaultMessage)), !.loading = FALSE]

\* The useMemo of filteredItems
filteredItems(h) ==
  IF ~Truthy(h.debouncedQuery) THEN h.items
  ELSE LET q == ToLowerCase(h.debouncedQuery)
           hit(it) == Includes(ToLowerCase(it.title), q)
       IN  Filter(h.items, hit)

HookStart ==
  /\ env = [REACT_APP_DATA_PROVIDER |-> <<>>, REACT_APP_USE_MOCK |-> <<>>,
            REACT_APP_NEWSAPI_KEY |-> <<>>, REACT_APP_GNEWS_KEY |-> <<>>]
  /\ staticMock = <<>>
  /\ location = [mock |-> <<>>, hash |-> <<>>]
  /\ useMockGlobal = FALSE
  /\ booted = FALSE
  /\ now = Now0
  /\ ticks = 0
  /\ pc = "idle"
  /\ queryText = <<>>
  /\ provider = sHN
  /\ forceMock = FALSE
  /\ mockOn = FALSE
  /\ requests = <<>>
  /\ response = NoResponse
  /\ result = Pending
  /\ input = NoInput
  /\ output = NoOutput
  /\ HookInit

\* The first commit runs the three effects: the cleanup of the mount effect
\* is registered, the debounce timeout is set, refresh() is called.  Under
\* React.StrictMode (index.js) a development build then runs the cleanups
\* (mountedRef.current = false, clearTimeout) and the effects once more on
\* the same instance: the ref is not set back, a second call is started
Mount(strict) ==
  /\ phase = "initial"
  /\ phase' = "mounted"
  /\ hook' = onRefreshStart(hook)
  /\ mountedRef' = IF strict THEN FALSE ELSE mountedRef
  /\ timer' = [armed |-> TRUE, value |-> Trim(hook.query)]
  /\ calls' = IF strict THEN <<PendingCall, PendingCall>> ELSE <<PendingCall>>
  /\ started' = [started EXCEPT !.effect = IF strict THEN 2 ELSE 1]
  /\ UNCHANGED <<fetchVars, utilVars>>

\* Mutant: a new query starts a call of the service
SetQueryRefetches(q) ==
  /\ phase = "mounted"
  /\ q # hook.query
  /\ hook' = [hook EXCEPT !.query = q]
  /\ timer' = [armed |-> TRUE, value |-> Trim(q)]
  /\ calls' = Append(calls, PendingCall)
  /\ UNCHANGED <<phase, mountedRef, started>>
  /\ UNCHANGED <<fetchVars, utilVars>>

\* setQuery(q): the debounce effect clears its timeout and sets a new one
SetQuery(q) ==
  /\ phase = "mounted"
  /\ q # hook.query
  /\ hook' = [hook EXCEPT !.query = q]
  /\ timer' = [armed |-> TRUE, value |-> Trim(q)]
  /\ UNCHANGED <<phase, mountedRef, calls, started>>
  /\ UNCHANGED <<fetchVars, utilVars>>

\* The timeout fires: setDebouncedQuery(query.trim())
DebounceFires ==
  /\ phase = "mounted"
  /\ timer.armed
  /\ hook' = [hook EXCEPT !.debouncedQuery = timer.value]
  /\ timer' = [armed |-> FALSE, value |-> <<>>]
  /\ UNCHANGED <<phase, mountedRef, calls, started>>
  /\ UNCHANGED <<fetchVars, utilVars>>

\* refresh() called by the consumer of the hook
Refresh ==
  /\ phase = "mounted"
  /\ started.refresh < MaxRefresh
  /\ hook' = onRefreshStart(hook)
  /\ calls' = Append(calls, PendingCall)
  /\ started' = [started EXCEPT !.refresh = @ + 1]
  /\ UNCHANGED <<phase, mountedRef, timer>>
  /\ UNCHANGED <<fetchVars, utilVars>>

\* The promise of call k resolves
Resolves(k, envelope) ==
  /\ k \in InFlight
  /\ LET t == Cardinality(Settled) + 1 IN
       /\ calls' = [calls EXCEPT ![k] = [status |-> "resolved", envelope |-> envelope,
                                         order |-> t, at |-> phase]]
       /\ hook' = onResolved(hook, mountedRef, envelope, t)
  /\ UNCHANGED <<phase, mountedRef, timer, started>>
  /\ UNCHANGED <<fetchVars, utilVars>>

\* The promise of call k rejects
Rejects(k, message) ==
  /\ k \in InFlight
  /\ calls' = [calls EXCEPT ![k] = [status |-> "rejected", envelope |-> NoEnvelope,
                                    order |-> Cardinality(Settled) + 1, at |-> phase]]
  /\ hook' = onRejected(hook, mountedRef, message)
  /\ UNCHANGED <<phase, mountedRef, timer, started>>
  /\ UNCHANGED <<fetchVars, utilVars>>

\* The component unmounts: the cleanups of the mount and debounce effects
Unmount ==
  /\ phase = "mounted"
  /\ phase' = "unmounted"
  /\ mountedRef' = FALSE
  /\ timer' = [armed |-> FALSE, value |-> <<>>]
  /\ UNCHANGED <<hook, calls, started>>
  /\ UNCHANGED <<fetchVars, utilVars>>

HookNext ==
  \/ \E strict \in BOOLEAN : Mount(strict)
  \/ \E q \in HookQueries : SetQuery(q)
  \/ DebounceFires
  \/ Refresh
  \/ \E k \in 1..Len(calls), envelope \in Envelopes : Resolves(k, envelope)
  \/ \E k \in 1..Len(calls), message \in Messages : Rejects(k, message)
  \/ Unmount

SpecHook == HookStart /\ [][HookNext]_vars

\* ------------------------------------------------------------------------
\* Vocabulary of the properties
\* ------------------------------------------------------------------------
Done == pc = "done"

\* The instant of an item, and whether it lies in the trailing 48 hours
InstantOf(it) == DateParse(it.publishedAt)
InWindow(it) == InstantOf(it) # NaN /\ InstantOf(it) >= now - 48 * HourMs

\* Mock mode as the documentation lists its triggers
MockModeActive ==
  \/ env.REACT_APP_USE_MOCK = sTrue
  \/ location.mock \in {<<"1">>, sTrue, <<"o", "n">>, <<"y", "e", "s">>}
  \/ \E i \in 1..(Len(location.hash) - 3) : SubSeq(location.hash, i, i + 3) = sMock
  \/ useMockGlobal

\* The url and the title the selected adapter reads from a raw record
RawUrl(r) == IF Adapter(provider) = sHN THEN OrElse(r.url, r.story_url) ELSE r.url
RawTitle(r) == IF Adapter(provider) = sHN THEN OrElse(r.title, r.story_title) ELSE r.title

FromResponse(it) ==
  /\ it.origin = "live"
  /\ response.kind = "json"
  /\ \E j \in 1..Len(response.list) :
       RawUrl(response.list[j]) = it.url /\ RawTitle(response.list[j]) = it.title

FromFixture(it) ==
  /\ it.origin = "mock"
  /\ \E j \in 1..Len(staticMock) :
       /\ OrElse(staticMock[j].url, DefaultUrl) = it.url
       /\ OrElse(staticMock[j].title, DefaultTitle) = it.title

AllItems(P(_)) == \A i \in 1..Len(result.items) : P(result.items[i])

\* ------------------------------------------------------------------------
\* C1: fetchDevelopments never rejects: whatever the provider selector, the
\* credentials, the mock configuration and the provider's outcome, the
\* promise settles resolved with an envelope whose items is a list and whose
\* usedMock is a boolean.
\* ------------------------------------------------------------------------
C1_NeverRejects ==
  /\ result.settled # "rejected"
  /\ Done => /\ result.settled = "resolved"
             /\ DOMAIN result = {"settled", "items", "usedMock"}
             /\ DOMAIN result.items = 1..Len(result.items)
             /\ result.usedMock \in BOOLEAN

C1_Witness ==
  /\ Done
  /\ response.kind = "parse"
  /\ provider = sGNEWS
  /\ result.settled = "resolved"
  /\ Len(result.items) = 2

\* ------------------------------------------------------------------------
\* C2: usedMock is truthful: a result with usedMock false holds only items
\* normalized from this invocation's provider response, a result with
\* usedMock true holds only fixture items, and no result mixes the two; for a
\* non-empty result the flag is false exactly when all items are live and
\* true exactly when all are mock.
\* ------------------------------------------------------------------------
C2_UsedMockTruthful ==
  Done =>
    /\ ~result.usedMock => AllItems(FromResponse)
    /\ result.usedMock => AllItems(FromFixture)
    /\ result.items # <<>> =>
         /\ (result.usedMock = FALSE) <=> AllItems(LAMBDA it : it.origin = "live")
         /\ (result.usedMock = TRUE) <=> AllItems(LAMBDA it : it.origin = "mock")
    /\ result.usedMock = (mockOn \/ response.kind # "json"
                           \/ ~fetchFromProviderBody(provider, now, response.list).ok
                           \/ \A i \in 1..Len(fetchFromProviderBody(provider, now, response.list).items) :
                                ~InWindow(fetchFromProviderBody(provider, now, response.list).items[i]))

C2_Witness ==
  /\ Done
  /\ ~result.usedMock
  /\ Len(result.items) = 2
  /\ Len(staticMock) = 2

\* ------------------------------------------------------------------------
\* C3: when mock mode is active at the start of an invocation (the
\* environment flag is 'true', the URL carries mock=1|true|on|yes or a hash
\* containing 'mock', or window.__USE_MOCK is set) the invocation issues no
\* network request and resolves with usedMock = true.
\* ------------------------------------------------------------------------
C3_MockModeNoNetwork ==
  (pc # "idle" /\ MockModeActive) =>
    /\ requests = <<>>
    /\ Done
    /\ result.settled = "resolved"
    /\ result.usedMock

C3_Witness ==
  /\ Done
  /\ useMockGlobal
  /\ ~hasQueryMock(location) /\ ~hasHashMock(location)
  /\ env.REACT_APP_USE_MOCK = <<>>
  /\ requests = <<>>
  /\ result.usedMock

\* The fixture with its defaults, and the part of it inside the window
MockItems == buildMockData(now, staticMock)
MockInWindow == Filter(MockItems, InWindow)

\* What fetchFromProvider returns for this invocation's response
Fetched == fetchFromProviderBody(provider, now, response.list)

\* ------------------------------------------------------------------------
\* C4: with mock mode off, a failure of the live path (non-2xx status,
\* rejected fetch, JSON parse error) gives the result the adapter returning
\* zero items gives under the same fixture, clock and query: usedMock = true
\* and the items of the mock path; the error is not part of the result.
\* ------------------------------------------------------------------------
C4_FailureSameAsEmpty ==
  (Done /\ ~mockOn /\ response.kind \in {"rejected", "status", "parse"}) =>
    /\ result = LiveResult(provider, now, <<>>, staticMock, forceMock, queryText)
    /\ result.usedMock
    /\ AllItems(FromFixture)
    /\ DOMAIN result = {"settled", "items", "usedMock"}

C4_Witness ==
  /\ Done
  /\ ~mockOn
  /\ response.kind = "status"
  /\ Len(staticMock) = 2
  /\ Len(result.items) = 2

\* ------------------------------------------------------------------------
\* C5: with mock mode off, when the live set is empty after the 48-hour
\* enforcement (no normalized item, or every one older than 48 hours) the
\* result has usedMock = true and its items are the finishing sequence
\* applied to the fixture items inside the window; a live set with an
\* in-window item gives usedMock = false.
\* ------------------------------------------------------------------------
C5_EmptyLiveFallsBack ==
  (Done /\ ~mockOn /\ response.kind = "json" /\ Fetched.ok) =>
    IF \A i \in 1..Len(Fetched.items) : ~InWindow(Fetched.items[i])
      THEN /\ result.usedMock
           /\ result.items = runPipeline(now, MockInWindow, queryText)
           /\ AllItems(FromFixture)
      ELSE /\ ~result.usedMock
           /\ AllItems(FromResponse)

C5_Witness ==
  /\ Done
  /\ ~mockOn
  /\ response.kind = "json"
  /\ Adapter(provider) = sNEWSAPI
  /\ Fetched.ok
  /\ Len(Fetched.items) = 1
  /\ \A i \in 1..Len(Fetched.items) : ~InWindow(Fetched.items[i])
  /\ result.usedMock
  /\ Len(result.items) = 1
  /\ Len(staticMock) = 2

\* ------------------------------------------------------------------------
\* C6: every item of every result has publishedAt within the trailing 48
\* hours, on the live and on the mock path, unless the invocation took the
\* forced-mock bypass (mock forced and no fixture item inside the window).
\* ------------------------------------------------------------------------
C6_ItemsWithinWindow ==
  (Done /\ ~(forceMock /\ MockInWindow = <<>>)) => AllItems(InWindow)

C6_Witness ==
  /\ Done
  /\ forceMock
  /\ Len(staticMock) = 2
  /\ Len(MockInWindow) = 1
  /\ Len(result.items) = 1

\* ------------------------------------------------------------------------
\* C7: on the mock path the window filter is bypassed exactly when mock mode
\* was forced by the runtime override and no fixture item lies inside the
\* window: then the whole fixture is used; when mock mode comes from the
\* environment flag only, or from a fallback of the live path, or a fixture
\* item is inside the window, only in-window fixture items are used.
\* ------------------------------------------------------------------------
C7_BypassOnlyWhenForced ==
  (Done /\ result.usedMock) =>
    IF forceMock /\ MockInWindow = <<>>
      THEN /\ result.items = runPipeline(now, MockItems, queryText)
           /\ \A j \in 1..Len(MockItems) :
                (Trim(queryText) = <<>>) => \E k \in 1..Len(result.items) :
                   Trim(result.items[k].url) = Trim(MockItems[j].url)
      ELSE /\ result.items = runPipeline(now, MockInWindow, queryText)
           /\ AllItems(InWindow)

C7_Witness ==
  /\ Done
  /\ forceMock
  /\ env.REACT_APP_USE_MOCK = sTrue
  /\ MockInWindow = <<>>
  /\ Len(result.items) = 2
  /\ \A k \in 1..Len(result.items) : ~InWindow(result.items[k])

\* Every fixture timestamp is older than 48 hours
AllFixtureStale ==
  \A j \in 1..Len(staticMock) :
    /\ staticMock[j].publishedAt.kind = "iso"
    /\ staticMock[j].publishedAt.ms < now - 48 * HourMs

FixtureKeys == {Trim(MockItems[j].url) : j \in 1..Len(MockItems)} \ {<<>>}

\* ------------------------------------------------------------------------
\* C8 as stated: with the forced-mock override set and every fixture
\* timestamp older than 48 hours, fetchDevelopments('') resolves with
\* usedMock = true and one result item for every fixture item.
\* ------------------------------------------------------------------------
C8_FullMockSet ==
  (Done /\ forceMock /\ queryText = <<>> /\ AllFixtureStale) =>
    /\ result.usedMock
    /\ Len(result.items) = Len(staticMock)

\* ------------------------------------------------------------------------
\* C8 as amended: with the forced-mock override set and every fixture
\* timestamp older than 48 hours, fetchDevelopments('') resolves with
\* usedMock = true and one result item for every distinct trimmed,
\* non-blank fixture url: the window removes nothing, and the result is the
\* full mock set when the fixture urls are distinct.
\* ------------------------------------------------------------------------
C8_BypassKeepsEveryUrl ==
  (Done /\ forceMock /\ queryText = <<>> /\ AllFixtureStale) =>
    /\ result.usedMock
    /\ {Trim(result.items[k].url) : k \in 1..Len(result.items)} = FixtureKeys
    /\ Len(result.items) = Cardinality(FixtureKeys)
    /\ Cardinality(FixtureKeys) = Len(staticMock) => Len(result.items) = Len(staticMock)

C8_Witness ==
  /\ Done
  /\ forceMock
  /\ queryText = <<>>
  /\ AllFixtureStale
  /\ Len(staticMock) = 2
  /\ Len(result.items) = 2

\* ------------------------------------------------------------------------
\* C9: in every result, live or mock, no two items share a url, urls being
\* compared case-sensitively after trimming whitespace.
\* ------------------------------------------------------------------------
C9_UrlsUnique ==
  Done => \A i, j \in 1..Len(result.items) :
            i # j => Trim(result.items[i].url) # Trim(result.items[j].url)

C9_Witness ==
  /\ Done
  /\ ~result.usedMock
  /\ Len(Fetched.items) = 2
  /\ Fetched.items[1].url # Fetched.items[2].url
  /\ Trim(Fetched.items[1].url) = Trim(Fetched.items[2].url)
  /\ Len(result.items) = 1

\* The instant the selected adapter gives a raw record
RawMs(r) ==
  IF Adapter(provider) = sHN THEN HNPublishedMs(now, r) ELSE ArticlePublishedMs(now, r)

\* Two records of the response, the first before the second, with an
\* identical url and different titles
SameUrlPair(i, j) ==
  /\ i < j
  /\ Truthy(RawUrl(response.list[i]))
  /\ RawUrl(response.list[i]) = RawUrl(response.list[j])
  /\ RawTitle(response.list[i]) # RawTitle(response.list[j])

Appears(r) ==
  \E k \in 1..Len(result.items) :
    /\ result.items[k].origin = "live"
    /\ result.items[k].url = RawUrl(r)
    /\ result.items[k].title = RawTitle(r)

\* The record at position j is in the result: an item has its url and title,
\* and no record at another position carries the same url and title
AppearsAt(j) ==
  /\ Appears(response.list[j])
  /\ \A k \in 1..Len(response.list) :
       k # j => \/ RawUrl(response.list[k]) # RawUrl(response.list[j])
                \/ RawTitle(response.list[k]) # RawTitle(response.list[j])

QueryMatches(title) ==
  Trim(queryText) = <<>> \/ Includes(ToLowerCase(title), ToLowerCase(Trim(queryText)))

\* ------------------------------------------------------------------------
\* C10 as stated: when two raw items of the provider share an identical url
\* and have different titles, only the first in provider order survives into
\* the result; the later one never appears.
\* ------------------------------------------------------------------------
C10_LaterNeverAppears ==
  (Done /\ response.kind = "json") =>
    \A i, j \in 1..Len(response.list) :
      SameUrlPair(i, j) => ~AppearsAt(j)

\* ------------------------------------------------------------------------
\* C10 as amended: when two raw items share an identical url and have
\* different titles, and the first passes normalization (it has a title) and
\* lies inside the 48-hour window when the response is processed, the later
\* one never appears in the result; and when no record before the first has
\* its url and the first matches the query, a live result contains the first.
\* ------------------------------------------------------------------------
C10_FirstInWindowWins ==
  (Done /\ response.kind = "json") =>
    \A i, j \in 1..Len(response.list) :
      (/\ SameUrlPair(i, j)
       /\ Truthy(RawTitle(response.list[i]))
       /\ RawMs(response.list[i]) # NaN
       /\ RawMs(response.list[i]) >= now - 48 * HourMs) =>
        /\ ~AppearsAt(j)
        /\ (/\ ~result.usedMock
            /\ QueryMatches(RawTitle(response.list[i]))
            /\ \A k \in 1..(i - 1) :
                 Trim(RawUrl(response.list[k])) # Trim(RawUrl(response.list[i]))) =>
             Appears(response.list[i])

C10_Witness ==
  /\ Done
  /\ response.kind = "json"
  /\ Len(response.list) = 2
  /\ SameUrlPair(1, 2)
  /\ Truthy(RawTitle(response.list[2]))
  /\ RawMs(response.list[2]) >= now - 48 * HourMs
  /\ ~result.usedMock
  /\ AppearsAt(1)
  /\ Len(result.items) = 1

\* The list fetchDevelopments hands to runPipeline: the fixture (windowed
\* unless the bypass applies) or the fetched items inside the window
PipelineInput ==
  IF result.usedMock
    THEN IF forceMock /\ MockInWindow = <<>> THEN MockItems ELSE MockInWindow
    ELSE Filter(Fetched.items, InWindow)

ItemSet(s) == {s[i] : i \in 1..Len(s)}

\* ------------------------------------------------------------------------
\* C11 as stated: the title filter commutes with URL deduplication:
\* applyTitleFilter(dedupeByUrl(items), q) and
\* dedupeByUrl(applyTitleFilter(items, q)) contain the same set of items.
\* ------------------------------------------------------------------------
C11_FilterCommutesWithDedupe ==
  Done =>
    ItemSet(applyTitleFilter(dedupeByUrl(PipelineInput), queryText))
      = ItemSet(dedupeByUrl(applyTitleFilter(PipelineInput, queryText)))

\* ------------------------------------------------------------------------
\* C11: filtering after deduplication keeps the matching items that are the
\* first of their trimmed url; deduplicating after filtering keeps the first
\* matching item of every trimmed url. The former set is contained in the
\* latter, and the two are equal when the items that share a trimmed url
\* agree on whether their title matches the query.
\* ------------------------------------------------------------------------
C11_FilterThenDedupeContains ==
  Done =>
    LET L == PipelineInput
        keys == [i \in 1..Len(L) |-> Trim(L[i].url)]
        hits == [i \in 1..Len(L) |-> keys[i] # <<>> /\ QueryMatches(L[i].title)]
        key(i) == keys[i]
        hit(i) == hits[i]
        firstOfUrl(i) == \A k \in 1..(i - 1) : key(k) # key(i)
        firstHitOfUrl(i) == \A k \in 1..(i - 1) : key(k) = key(i) => ~hit(k)
        dedupeThenFilter == ItemSet(applyTitleFilter(dedupeByUrl(L), queryText))
        filterThenDedupe == ItemSet(dedupeByUrl(applyTitleFilter(L, queryText)))
    IN  /\ dedupeThenFilter = {L[i] : i \in {j \in 1..Len(L) : hit(j) /\ firstOfUrl(j)}}
        /\ filterThenDedupe = {L[i] : i \in {j \in 1..Len(L) : hit(j) /\ firstHitOfUrl(j)}}
        /\ dedupeThenFilter \subseteq filterThenDedupe
        /\ (\A i, j \in 1..Len(L) : key(i) = key(j) => (hit(i) <=> hit(j)))
             => dedupeThenFilter = filterThenDedupe

\* Two items of one url of which only the later matches the query: the
\* filter applied first keeps it, deduplication applied first loses it
C11_Witness ==
  /\ Done
  /\ Len(PipelineInput) = 2
  /\ Trim(PipelineInput[1].url) = Trim(PipelineInput[2].url)
  /\ ~QueryMatches(PipelineInput[1].title)
  /\ QueryMatches(PipelineInput[2].title)
  /\ applyTitleFilter(dedupeByUrl(PipelineInput), queryText) = <<>>
  /\ Len(dedupeByUrl(applyTitleFilter(PipelineInput, queryText))) = 1

\* The positions of PipelineInput that survive deduplication: the first of
\* every trimmed, non-empty url
CandidatesOf(L) ==
  {i \in 1..Len(L) :
     /\ Trim(L[i].url) # <<>>
     /\ \A k \in 1..(i - 1) : Trim(L[k].url) # Trim(L[i].url)}

Candidates == CandidatesOf(PipelineInput)

\* Item x of the result is the input item y, annotated
SameItem(x, y) ==
  x.id = y.id /\ x.title = y.title /\ x.url = y.url /\ x.publishedAt = y.publishedAt

\* ------------------------------------------------------------------------
\* C12: for a non-blank queryText every returned item has a title that
\* contains the trimmed query ignoring case, and every deduplicated
\* candidate whose title contains it is returned; for an empty or
\* whitespace-only queryText the filter removes nothing.
\* ------------------------------------------------------------------------
C12_TitleFilterExact ==
  Done =>
    LET q == Trim(queryText)
        L == PipelineInput
        candidates == CandidatesOf(L)
        contains(title) == Includes(ToLowerCase(title), ToLowerCase(q))
        returned(i) == \E j \in 1..Len(result.items) : SameItem(result.items[j], L[i])
    IN  /\ q # <<>> =>
             /\ \A j \in 1..Len(result.items) : contains(result.items[j].title)
             /\ \A i \in candidates : contains(L[i].title) => returned(i)
        /\ q = <<>> =>
             /\ \A i \in candidates : returned(i)
             /\ Len(result.items) = Cardinality(candidates)

\* Two candidates, one returned for a query that differs from its title in
\* case and in surrounding blanks
C12_Witness ==
  /\ Done
  /\ queryText # Trim(queryText)
  /\ Trim(queryText) # <<>>
  /\ Cardinality(Candidates) = 2
  /\ Len(result.items) = 1
  /\ result.items[1].title # ToLowerCase(result.items[1].title)

\* The forced-mock branch of prepareMock that skips the window
BypassTaken == Done /\ result.usedMock /\ forceMock /\ MockInWindow = <<>>

\* ------------------------------------------------------------------------
\* C13: the items of every result are ordered by publishedAt descending: of
\* two adjacent items the earlier one's instant is >= the later one's, on
\* the live path, the mock path and the forced-mock bypass branch.
\* ------------------------------------------------------------------------
C13_SortedDescending ==
  Done =>
    \A i \in 1..(Len(result.items) - 1) :
      /\ InstantOf(result.items[i]) # NaN
      /\ InstantOf(result.items[i + 1]) # NaN
      /\ InstantOf(result.items[i]) >= InstantOf(result.items[i + 1])

\* The bypass branch with two fixture entries listed oldest first
C13_Witness ==
  /\ BypassTaken
  /\ Len(PipelineInput) = 2
  /\ InstantOf(PipelineInput[1]) < InstantOf(PipelineInput[2])
  /\ Len(result.items) = 2
  /\ InstantOf(result.items[1]) > InstantOf(result.items[2])

\* The lists the steps before addRelativeTime hand over
StagesBeforeAnnotation ==
  LET L == PipelineInput
      deduped == dedupeByUrl(L)
      filtered == applyTitleFilter(deduped, queryText)
  IN  {Fetched.items, MockItems, MockInWindow, L, deduped, filtered, SortDesc(filtered)}

\* The label of an age in milliseconds
LabelOfAge(age) ==
  IF age < 60 * 1000 THEN [n |-> 0, unit |-> "now"]
  ELSE IF age < HourMs THEN [n |-> age \div (60 * 1000), unit |-> "m ago"]
  ELSE IF age < 24 * HourMs THEN [n |-> age \div HourMs, unit |-> "h ago"]
  ELSE [n |-> age \div (24 * HourMs), unit |-> "d ago"]

\* ------------------------------------------------------------------------
\* C14: relativeTime is present on every item of every result and is
\* computed, as the last pipeline step, from that item's publishedAt; no
\* item produced by normalization, mock loading, window filtering, dedupe,
\* title filtering or sorting carries a relativeTime field.
\* ------------------------------------------------------------------------
C14_RelativeTimeLast ==
  Done =>
    /\ \A j \in 1..Len(result.items) :
         /\ "relativeTime" \in DOMAIN result.items[j]
         /\ result.items[j].relativeTime = LabelOfAge(now - InstantOf(result.items[j]))
    /\ \A stage \in StagesBeforeAnnotation :
         \A j \in 1..Len(stage) : "relativeTime" \notin DOMAIN stage[j]
    /\ LET sorted == SortDesc(applyTitleFilter(dedupeByUrl(PipelineInput), queryText))
       IN  /\ Len(result.items) = Len(sorted)
           /\ \A j \in 1..Len(result.items) : SameItem(result.items[j], sorted[j])

\* A result whose two items are annotated in minutes and in hours
C14_Witness ==
  /\ Done
  /\ Len(result.items) = 2
  /\ result.items[1].relativeTime = [n |-> 59, unit |-> "m ago"]
  /\ result.items[2].relativeTime = [n |-> 2, unit |-> "h ago"]

\* ------------------------------------------------------------------------
\* Vocabulary of the date utilities' properties
\* ------------------------------------------------------------------------
\* The argument denotes an instant: a parseable string, a valid Date, a
\* number that is not NaN
ValidArg(v) == v.kind \in {"iso", "date", "num"} /\ v.ms # NaN

\* The instant of a valid argument; the numbers passed are unix seconds
ArgInstant(v) == IF v.kind = "num" THEN v.ms * 1000 ELSE v.ms

Formatted == output.fn = "formatRelativeTime"
Windowed == output.fn = "isWithinLastHours"

\* ------------------------------------------------------------------------
\* C15: formatRelativeTime buckets the age delta = now - instant: delta < 0
\* or delta < 60s gives 'now', delta < 3600s gives floor(delta/60s) 'm ago',
\* delta < 86400s gives floor(delta/3600s) 'h ago', otherwise
\* floor(delta/86400s) 'd ago'; 59 seconds ago is 'now', 90 seconds ago
\* '1m ago', 61 minutes ago '1h ago' and 25 hours ago '1d ago'.
\* ------------------------------------------------------------------------
C15_RelativeTimeBuckets ==
  Formatted =>
    /\ ValidArg(input.a) => output.a = LabelOfAge(now - ArgInstant(input.a))
    /\ ValidArg(input.b) => output.b = LabelOfAge(now - ArgInstant(input.b))
    /\ input.a = Iso(now - 59 * 1000) => output.a = [n |-> 0, unit |-> "now"]
    /\ input.a = Iso(now - 90 * 1000) => output.a = [n |-> 1, unit |-> "m ago"]
    /\ input.a = Iso(now - 61 * 60 * 1000) => output.a = [n |-> 1, unit |-> "h ago"]
    /\ input.a = Iso(now - 25 * HourMs) => output.a = [n |-> 1, unit |-> "d ago"]
    /\ input.a = Iso(now + 1000) => output.a = [n |-> 0, unit |-> "now"]

\* Exactly one minute and exactly one day
C15_Witness ==
  /\ Formatted
  /\ input.a = Iso(now - 60 * 1000)
  /\ output.a = [n |-> 1, unit |-> "m ago"]
  /\ input.b = Iso(now - 24 * HourMs)
  /\ output.b = [n |-> 1, unit |-> "d ago"]

\* 'now' < 'Xm ago' < 'Xh ago' < 'Xd ago'
UnitRank(label) ==
  IF label.unit = "now" THEN 0
  ELSE IF label.unit = "m ago" THEN 1
  ELSE IF label.unit = "h ago" THEN 2
  ELSE 3

\* ------------------------------------------------------------------------
\* C16: formatRelativeTime is monotonic: for two instants t1 < t2 <= now
\* evaluated at the same clock value, the bucket of t1 is never more recent
\* than the bucket of t2: its unit is not a finer one, and within one unit
\* its count is >= the count of t2.
\* ------------------------------------------------------------------------
C16_RelativeTimeMonotonic ==
  (/\ Formatted
   /\ ValidArg(input.a) /\ ValidArg(input.b)
   /\ ArgInstant(input.a) < ArgInstant(input.b)
   /\ ArgInstant(input.b) <= now) =>
    /\ UnitRank(output.a) >= UnitRank(output.b)
    /\ UnitRank(output.a) = UnitRank(output.b) => output.a.n >= output.b.n

\* Two instants two days and 25 hours back
C16_Witness ==
  /\ Formatted
  /\ input.a = Iso(now - HOURS * HourMs)
  /\ input.b = Iso(now - 25 * HourMs)
  /\ output.a = [n |-> 2, unit |-> "d ago"]
  /\ output.b = [n |-> 1, unit |-> "d ago"]

\* ------------------------------------------------------------------------
\* C17: isWithinLastHours(input, hours) returns true if and only if the
\* input's instant is greater than or equal to now minus hours (boundary
\* inclusive); for invalid or unparseable input it returns false, and it
\* never throws.
\* ------------------------------------------------------------------------
C17_WithinLastHoursExact ==
  Windowed =>
    /\ output.a \in BOOLEAN /\ output.b \in BOOLEAN
    /\ output.a = (ValidArg(input.a) /\ ArgInstant(input.a) >= now - input.hours * HourMs)
    /\ output.b = (ValidArg(input.b) /\ ArgInstant(input.b) >= now - input.hours * HourMs)

\* The start of the 48 hour window, and a string Date cannot parse
C17_Witness ==
  /\ Windowed
  /\ input.hours = HOURS
  /\ input.a = Iso(now - HOURS * HourMs)
  /\ output.a = TRUE
  /\ input.b = BadText
  /\ output.b = FALSE

\* ------------------------------------------------------------------------
\* Vocabulary of the provider properties
\* ------------------------------------------------------------------------
\* The selector as configured, upper-cased
Selector == ToUpperCase(env.REACT_APP_DATA_PROVIDER)

\* NEWSAPI or GNEWS is selected and its credential is not configured
CredentialAbsent ==
  \/ Selector = sNEWSAPI /\ env.REACT_APP_NEWSAPI_KEY = <<>>
  \/ Selector = sGNEWS /\ env.REACT_APP_GNEWS_KEY = <<>>

\* The request of the HN adapter
HNRequest == [endpoint |-> sHN, from |-> Absent]

\* The live path has failed: the request was rejected, answered with a
\* non-2xx status, or its body did not parse
RequestFailed == response.kind \in {"rejected", "status", "parse"}

\* ------------------------------------------------------------------------
\* C18: when the selected provider is NEWSAPI or GNEWS and its credential is
\* absent, the configuration error is raised before any network request
\* (the invocation issues none), and fetchDevelopments folds it into the
\* mock fallback: it resolves with usedMock = true and the caller never
\* observes the error.
\* ------------------------------------------------------------------------
C18_MissingKeyNoRequest ==
  (pc # "idle" /\ CredentialAbsent) =>
    /\ requests = <<>>
    /\ Done
    /\ result.settled = "resolved"
    /\ result.usedMock
    /\ ~MockModeActive =>
         /\ response.kind = "nokey"
         /\ result = Resolved(prepareMock(now, staticMock, forceMock, queryText), TRUE)

\* NewsAPI selected in lower case, no key, mock mode off, a fixture to show
C18_Witness ==
  /\ Done
  /\ ~MockModeActive
  /\ env.REACT_APP_DATA_PROVIDER # Selector
  /\ Selector = sNEWSAPI
  /\ env.REACT_APP_NEWSAPI_KEY = <<>>
  /\ env.REACT_APP_GNEWS_KEY # <<>>
  /\ requests = <<>>
  /\ result.usedMock
  /\ Len(result.items) = 2

\* ------------------------------------------------------------------------
\* C19: for a provider selector other than HN, NEWSAPI or GNEWS (compared
\* after upper-casing) the live path behaves exactly as for HN: the same
\* single request to the HN endpoint, the same normalization and
\* self-filtering, the same result; an unset selector defaults to HN.
\* ------------------------------------------------------------------------
C19_UnknownProviderIsHN ==
  (pc # "idle" /\ Selector \notin {sHN, sNEWSAPI, sGNEWS}) =>
    /\ env.REACT_APP_DATA_PROVIDER = <<>> => provider = sHN
    /\ ~mockOn =>
         /\ requests = <<HNRequest>>
         /\ response.kind # "nokey"
         /\ (Done /\ response.kind = "json") =>
              /\ Fetched = fetchFromProviderBody(sHN, now, response.list)
              /\ Fetched.ok =>
                   Fetched.items = Filter(normalizeFromHN(now, response.list).items, InWindow)
              /\ result = LiveResult(sHN, now, response.list, staticMock, forceMock, queryText)

\* An unknown selector; of two records that only HN can use and that share a
\* url, the first has left the window and the second is the result
C19_Witness ==
  /\ Done
  /\ provider = <<"R", "S", "S">>
  /\ requests = <<HNRequest>>
  /\ response.kind = "json"
  /\ Len(response.list) = 2
  /\ ~result.usedMock
  /\ Len(result.items) = 1
  /\ result.items[1].title = response.list[2].story_title
  /\ result.items[1].url = response.list[2].story_url

\* ------------------------------------------------------------------------
\* C20: each invocation issues at most one HTTP request: exactly one on the
\* live path with a usable provider configuration, none in mock mode or
\* when a required credential is missing; after a failed request no further
\* request is made in that invocation and the mock fallback is taken at
\* once.
\* ------------------------------------------------------------------------
C20_AtMostOneRequest ==
  /\ Len(requests) <= 1
  /\ pc # "idle" =>
       Len(requests) = IF MockModeActive \/ CredentialAbsent THEN 0 ELSE 1
  /\ RequestFailed =>
       /\ Done
       /\ Len(requests) = 1
       /\ result = Resolved(prepareMock(now, staticMock, forceMock, queryText), TRUE)

\* A request to GNews answered with a non-2xx status
C20_Witness ==
  /\ Done
  /\ response.kind = "status"
  /\ Len(requests) = 1
  /\ requests[1].endpoint = sGNEWS
  /\ result.usedMock
  /\ Len(result.items) = 1

\* The mock indicator of a URL as documented: ?mock=1|true|on|yes or a hash
\* containing 'mock'
MockIndicator(loc) ==
  \/ loc.mock \in {<<"1">>, sTrue, <<"o", "n">>, <<"y", "e", "s">>}
  \/ \E i \in 1..(Len(loc.hash) - 3) : SubSeq(loc.hash, i, i + 3) = sMock

\* ------------------------------------------------------------------------
\* C21: if the launch URL carries the mock indicator, the process-wide
\* forced-mock flag is set at startup and stays set for the rest of the
\* session: every later invocation resolves with usedMock = true and without
\* a request, whatever the configuration flag and later changes of the URL,
\* and no step of an invocation writes the flag.
\* ------------------------------------------------------------------------
C21_ForcedMockPersists ==
  /\ []((useMockGlobal /\ pc # "idle") =>
          (Done /\ result.settled = "resolved" /\ result.usedMock /\ requests = <<>>))
  /\ [][/\ (~booted /\ booted' /\ MockIndicator(location)) => useMockGlobal'
        /\ useMockGlobal => useMockGlobal'
        /\ (pc # "idle" \/ pc' # "idle") => useMockGlobal' = useMockGlobal]_vars

\* Launched with the indicator, the URL changed to one without it, the
\* configuration flag unset: the invocation is served from the fixture
C21_Witness ==
  /\ Done
  /\ useMockGlobal
  /\ ~MockIndicator(location)
  /\ env.REACT_APP_USE_MOCK = <<>>
  /\ result.usedMock
  /\ requests = <<>>
  /\ Len(result.items) = 2

\* A record of the response the selected adapter can use as it is: title,
\* url, and a timestamp that is absent or parses
WellFormed(r) ==
  /\ RawTitle(r) # <<>>
  /\ RawUrl(r) # <<>>
  /\ IF Adapter(provider) = sHN
       THEN r.created_at_i # 0 \/ r.created_at.kind \in {"iso", "absent"}
       ELSE r.publishedAt.kind \in {"iso", "absent"}

\* The instant of a well-formed record; a missing timestamp is the current time
WellFormedMs(r) ==
  IF Adapter(provider) = sHN
    THEN IF r.created_at_i # 0 THEN r.created_at_i * 1000
         ELSE IF r.created_at.kind = "iso" THEN r.created_at.ms ELSE now
    ELSE IF r.publishedAt.kind = "iso" THEN r.publishedAt.ms ELSE now

\* ------------------------------------------------------------------------
\* C22 as stated: a data-shape anomaly of one provider record (missing
\* title, missing url, missing or unusable timestamp) is handled during
\* normalization and never escalated: the adapter does not fail, and when
\* the response holds a well-formed record inside the window the pipeline
\* does not fall back to mock.
\* ------------------------------------------------------------------------
C22_AnomalyStaysLocal ==
  (Done /\ ~mockOn /\ response.kind = "json") =>
    /\ Fetched.ok
    /\ (\E j \in 1..Len(response.list) :
          /\ WellFormed(response.list[j])
          /\ WellFormedMs(response.list[j]) >= now - HOURS * HourMs) => ~result.usedMock

\* ------------------------------------------------------------------------
\* C26: the mock path and the live path apply the same finishing sequence:
\* whichever list is handed over (fixture items or live items), the result
\* is that list deduplicated, then title-filtered, then sorted descending,
\* then annotated with the relative time.
\* ------------------------------------------------------------------------
C26_SameFinishingSequence ==
  Done =>
    LET L == PipelineInput
        finished == addRelativeTime(now, SortDesc(applyTitleFilter(dedupeByUrl(L), queryText)))
    IN  /\ result.items = finished
        /\ result.usedMock => \A i \in 1..Len(L) : L[i].origin = "mock"
        /\ ~result.usedMock => \A i \in 1..Len(L) : L[i].origin = "live"

\* The mock path drops the second of two fixture entries of one url
C26_Witness ==
  /\ Done
  /\ result.usedMock
  /\ Len(PipelineInput) = 2
  /\ Trim(queryText) = <<>>
  /\ Len(result.items) = 1

\* The envelope this invocation gives for the query q, everything else
\* (configuration, override, fixture, clock, provider outcome) as it is
OutcomeFor(q) ==
  IF mockOn THEN Resolved(prepareMock(now, staticMock, forceMock, q), TRUE)
  ELSE IF response.kind = "json"
    THEN LiveResult(provider, now, response.list, staticMock, forceMock, q)
  ELSE OnError(now, staticMock, forceMock, q)

\* ------------------------------------------------------------------------
\* C28: usedMock does not depend on queryText: invocations that differ only
\* in queryText give the same usedMock; a query that filters out every live
\* item gives an empty list with usedMock = false and no mock fallback.
\* ------------------------------------------------------------------------
C28_UsedMockIgnoresQuery ==
  Done =>
    LET outcome == [q \in Queries |-> OutcomeFor(q)]
        fetched == Fetched
    IN  /\ queryText \in Queries
        /\ result = outcome[queryText]
        /\ \A q \in Queries : outcome[q].usedMock = result.usedMock
        /\ (/\ ~mockOn
            /\ response.kind = "json"
            /\ fetched.ok
            /\ Filter(fetched.items, InWindow) # <<>>
            /\ \A i \in 1..Len(fetched.items) : ~QueryMatches(fetched.items[i].title)) =>
             (result.items = <<>> /\ ~result.usedMock)

\* Live items inside the window, none of which matches the query
C28_Witness ==
  /\ Done
  /\ Trim(queryText) # <<>>
  /\ Filter(Fetched.items, InWindow) # <<>>
  /\ result.items = <<>>
  /\ ~result.usedMock
  /\ Len(staticMock) = 2

\* ------------------------------------------------------------------------
\* C25 as stated: in every result the id values are unique: no two returned
\* items have the same id, whether the ids are provider-native, made of
\* publish time and title, taken from the article url or index, or from the
\* mock fixture.
\* ------------------------------------------------------------------------
C25_IdsUnique ==
  output.fn = "fetchDevelopments" =>
    \A i, j \in 1..Len(output.a.items) :
      i # j => output.a.items[i].id # output.a.items[j].id

\* ------------------------------------------------------------------------
\* Vocabulary of the hook's properties
\* ------------------------------------------------------------------------
\* Call k changes from pending to the given status in this step
Settles(k, status) ==
  /\ k \in 1..Len(calls)
  /\ calls[k].status = "pending"
  /\ calls'[k].status = status

\* The call started last among those that resolved
LastResolved ==
  CHOOSE k \in 1..Len(calls) :
    /\ calls[k].status = "resolved"
    /\ \A j \in (k + 1)..Len(calls) : calls[j].status # "resolved"

\* ------------------------------------------------------------------------
\* C23: changing the search query (setQuery and the debounced update that
\* follows) never invokes the service: calls are started by the initial load
\* and by refresh() only, and filteredItems is the fetched list filtered by
\* the trimmed, lower-cased debounced query (the whole list when it is
\* empty).
\* ------------------------------------------------------------------------
C23_QueryNeverFetches ==
  /\ [](/\ Len(calls) = started.effect + started.refresh
        /\ started.effect = 0 <=> phase = "initial"
        /\ hook.debouncedQuery = Trim(hook.debouncedQuery)
        /\ LET q == ToLowerCase(Trim(hook.debouncedQuery))
               kept == {i \in 1..Len(hook.items) :
                          q = <<>> \/ Includes(ToLowerCase(hook.items[i].title), q)}
           IN  /\ Len(filteredItems(hook)) = Cardinality(kept)
               /\ \A i \in kept : \E j \in 1..Len(filteredItems(hook)) :
                    filteredItems(hook)[j] = hook.items[i]
               /\ q = <<>> => filteredItems(hook) = hook.items)
  /\ [][(hook'.query # hook.query \/ hook'.debouncedQuery # hook.debouncedQuery) =>
          (calls' = calls /\ hook'.items = hook.items)]_vars

\* ' Ai' typed and debounced over two fetched items: one is shown, and the
\* initial load is the only call
C23_Witness ==
  /\ phase = "mounted"
  /\ hook.query = <<" ", "A", "i">>
  /\ hook.debouncedQuery = <<"A", "i">>
  /\ Len(hook.items) = 2
  /\ Len(filteredItems(hook)) = 1
  /\ Len(calls) = 1

\* ------------------------------------------------------------------------
\* C24 as stated: when two refresh calls overlap and the earlier-started one
\* resolves after the later-started one, the stale result is discarded: once
\* all calls have settled, items, mockActive and lastUpdated are those of the
\* call started last.
\* ------------------------------------------------------------------------
C24_StaleResultDiscarded ==
  (/\ phase = "mounted"
   /\ mountedRef
   /\ InFlight = {}
   /\ \E k \in 1..Len(calls) : calls[k].status = "resolved") =>
    /\ hook.items = calls[LastResolved].envelope.items
    /\ hook.mockActive = calls[LastResolved].envelope.usedMock
    /\ hook.lastUpdated = calls[LastResolved].order

\* ------------------------------------------------------------------------
\* C27 as stated: every refresh started while the component is mounted
\* leaves loading = false once its call has settled, so loading is true only
\* while a refresh is in flight, for every mount sequence, the one of
\* React.StrictMode (mount, cleanup, effects again) included.
\* ------------------------------------------------------------------------
C27_LoadingOnlyInFlight ==
  (phase = "mounted" /\ hook.loading) => InFlight # {}

\* ------------------------------------------------------------------------
\* C29 as stated: in a mounted component a refresh whose call rejects leaves
\* items, mockActive and lastUpdated as they were and sets error to a
\* message; a refresh whose call resolves sets items, mockActive and
\* lastUpdated together and leaves error null; starting a refresh clears
\* error and sets loading = true.
\* ------------------------------------------------------------------------
C29_RefreshOutcome ==
  [][(phase = "mounted" /\ phase' = "mounted") =>
       /\ \A k \in 1..Len(calls) :
            /\ Settles(k, "rejected") =>
                 /\ hook'.items = hook.items
                 /\ hook'.mockActive = hook.mockActive
                 /\ hook'.lastUpdated = hook.lastUpdated
                 /\ ~hook'.error.isNull
            /\ Settles(k, "resolved") =>
                 /\ hook'.items = calls'[k].envelope.items
                 /\ hook'.mockActive = calls'[k].envelope.usedMock
                 /\ hook'.lastUpdated = calls'[k].order
                 /\ hook'.error.isNull
       /\ Len(calls') > Len(calls) => (hook'.error.isNull /\ hook'.loading)]_vars

\* ------------------------------------------------------------------------
\* C30: after the component has unmounted, a refresh that was in flight and
\* then settles, resolving or rejecting, changes none of items, mockActive,
\* lastUpdated, error and loading; the call is not cancelled and still
\* settles.
\* ------------------------------------------------------------------------
C30_UnmountedSettlesSilently ==
  /\ [][phase = "unmounted" =>
          /\ hook' = hook
          /\ phase' = "unmounted"
          /\ Len(calls') = Len(calls)]_vars
  /\ [](\A k \in InFlight :
          /\ ENABLED (\E envelope \in Envelopes : Resolves(k, envelope))
          /\ ENABLED (\E message \in Messages : Rejects(k, message)))

\* Mounted once, a refresh on top of the initial load, unmounted with both
\* in flight: one has resolved and one rejected since, and the state is the
\* one the unmount left
C30_Witness ==
  /\ phase = "unmounted"
  /\ started.effect = 1
  /\ \E k \in 1..Len(calls) : calls[k].status = "resolved" /\ calls[k].at = "unmounted"
  /\ \E k \in 1..Len(calls) : calls[k].status = "rejected" /\ calls[k].at = "unmounted"
  /\ hook.loading
  /\ hook.items = <<>>
  /\ hook.error.isNull
  /\ hook.lastUpdated = 0

====
